---------------------------- MODULE Spec2Model ----------------------------
(***************************************************************************)
(* Lexical attractor metrics of the longitudinal probe study: tokenizer,   *)
(* lexical scorers, coupling test, basin classification, temporal          *)
(* aggregation and co-occurrence graph, as coded in                        *)
(*   src/scripts/analyze_frames.py                                         *)
(*   src/scripts/analyze_calibration.py                                    *)
(*   src/scripts/generate_figures.py                                       *)
(* A text is a sequence of one-character strings; a token is a string.     *)
(* A Python float is modelled by the exact rational [n, d] with d > 0,     *)
(* except in analyze_frame_data and in a day's avg_reasoning, whose floats *)
(* are IEEE-754 doubles; the reasoning_tokens of the figures' records are  *)
(* Python ints of any size, held as limbs.                                 *)
(***************************************************************************)
EXTENDS Integers, Sequences, FiniteSets, TLC

(***************************************************************************)
(* Bounds of the model                                                     *)
(***************************************************************************)
\* longest text of the scoring specification, in chunks
MaxChunks == 3

\* basin classification: aggregates range over k/20 for k in -1..MaxAggNum
MaxAggNum == 10

\* figures: most rows of an arbitrary input file
MaxRows == 3

\* figures: the latest date of a row, in days after the earliest possible one
MaxDate == 8

\* figures: most days of an input file with one row for each day in turn
MaxSeries == 9

\* co-occurrence: how far a run of equal records goes past 0 and the thresholds
MaxExtra == 1

\* frames: most rows of a frame_responses.csv
MaxFrameRows == 3

(***************************************************************************)
(* Python built-ins used by the scripts                                    *)
(***************************************************************************)
UPPER ==
  <<"A","B","C","D","E","F","G","H","I","J","K","L","M","N","O","P","Q","R",
    "S","T","U","V","W","X","Y","Z">>

LOWER ==
  <<"a","b","c","d","e","f","g","h","i","j","k","l","m","n","o","p","q","r",
    "s","t","u","v","w","x","y","z">>

DIGITS == <<"0","1","2","3","4","5","6","7","8","9">>

Range(s) == {s[i] : i \in DOMAIN s}

\* a class of word characters that takes the full stop too
WordChars_with_full_stop ==
  Range(UPPER) \cup Range(LOWER) \cup Range(DIGITS) \cup {"_", "."}

\* the characters the regex class \w matches
WordChars == Range(UPPER) \cup Range(LOWER) \cup Range(DIGITS) \cup {"_"}

\* str.lower() of one character
lower_char(c) ==
  IF c \in Range(UPPER)
  THEN LOWER[CHOOSE i \in DOMAIN UPPER : UPPER[i] = c]
  ELSE c

\* a conversion that leaves the case of every character as it is
lower_keeps_case(text) == text

\* str.lower()
lower(text) == [i \in DOMAIN text |-> lower_char(text[i])]

\* the string made of the characters of s
RECURSIVE Join(_)
Join(s) == IF s = <<>> THEN "" ELSE Head(s) \o Join(Tail(s))

\* Python's  p in s  for a string pattern p and a text s
str_in(p, s) ==
  \E i \in 0..(Len(s) - Len(p)) : Join(SubSeq(s, i + 1, i + Len(p))) = p

\* re.findall(r'\b\w+\b', s): the maximal runs of word characters of s,
\* scanned from position i with the run cur in progress
RECURSIVE findall_from(_, _, _, _)
findall_from(s, i, cur, out) ==
  IF i > Len(s)
  THEN IF cur = "" THEN out ELSE Append(out, cur)
  ELSE IF s[i] \in WordChars
       THEN findall_from(s, i + 1, cur \o s[i], out)
       ELSE findall_from(s, i + 1, "", IF cur = "" THEN out ELSE Append(out, cur))

re_findall_words(s) == findall_from(s, 1, "", <<>>)

\* sum(1 for t in tokens if t in vocabulary)
count_in(tokens, vocabulary) ==
  Cardinality({i \in DOMAIN tokens : tokens[i] \in vocabulary})

\* sum(1 for d in seq if d[key]), given the list of the values d[key]
count_true(flags) == Cardinality({i \in DOMAIN flags : flags[i]})

\* max(values), with 0 for no values at all
max_default0(values) ==
  IF values = {} THEN 0 ELSE CHOOSE v \in values : \A w \in values : w <= v

\* any(p in s for p in phrases)
any_in(phrases, s) == \E p \in phrases : str_in(p, s)

\* the same without the guard for an empty token list
token_total_unguarded(tokens) == Len(tokens)

\* a total that counts one token more than there are
token_total_plus_one(tokens) == Len(tokens) + 1

\* len(tokens) if tokens else 1
token_total(tokens) == IF tokens # <<>> THEN Len(tokens) ELSE 1

(***************************************************************************)
(* Floats as exact rationals                                               *)
(***************************************************************************)
Q(num, den) == [n |-> num, d |-> den]

QLt(a, b) == a.n * b.d < b.n * a.d

QLe(a, b) == a.n * b.d <= b.n * a.d

QEq(a, b) == a.n * b.d = b.n * a.d

QAdd(a, b) == Q(a.n * b.d + b.n * a.d, a.d * b.d)

\* a / k for an integer k > 0
QDivInt(a, k) == Q(a.n, a.d * k)

\* a * k for an integer k
QMulInt(a, k) == Q(a.n * k, a.d)

RECURSIVE QSum(_)
QSum(s) == IF s = <<>> THEN Q(0, 1) ELSE QAdd(Head(s), QSum(Tail(s)))

(***************************************************************************)
(* Python floats as IEEE-754 doubles, for the sums and means of            *)
(* analyze_frame_data.  A natural number is a sequence of limbs, digits in *)
(* base 2^15, least significant first, without leading zero limbs.  A      *)
(* positive double is [m, e]: m is its 53-bit significand and its value is *)
(* m * 2^e; 0.0 is [m |-> <<>>, e |-> 0].  Every operation rounds to       *)
(* nearest, ties to even.  Negative values, subnormals, infinities and NaN *)
(* do not occur in the runs modelled.                                      *)
(***************************************************************************)
Precision == 53

LimbBits == 15

Base == 2^LimbBits

\* the bits a quotient is computed to beyond those of its dividend
QuotientBits == 75

float_zero == [m |-> <<>>, e |-> 0]

\* the limbs of the natural number k < Base
SmallNat(k) == IF k = 0 THEN <<>> ELSE <<k>>

\* a limb sequence without its leading zero limbs
RECURSIVE Norm(_)
Norm(n) ==
  IF n = <<>> \/ n[Len(n)] # 0 THEN n ELSE Norm(SubSeq(n, 1, Len(n) - 1))

\* the number of bits of n > 0
BitLength(n) ==
  LET top == n[Len(n)]
  IN  LimbBits * (Len(n) - 1)
        + (CHOOSE k \in 1..LimbBits : 2^(k - 1) <= top /\ top < 2^k)

\* bit j of n, bit 0 the least significant
Bit(n, j) ==
  LET i == (j \div LimbBits) + 1
  IN  IF i > Len(n) THEN 0 ELSE (n[i] \div 2^(j % LimbBits)) % 2

Limb(n, i) == IF i >= 1 /\ i <= Len(n) THEN n[i] ELSE 0

\* n * 2^s
ShiftLeft(n, s) ==
  LET w == s \div LimbBits
      b == s % LimbBits
      shifted == [i \in 1..(Len(n) + 1) |->
                    ((Limb(n, i) * 2^b) % Base)
                      + (Limb(n, i - 1) \div 2^(LimbBits - b))]
  IN  Norm([i \in 1..w |-> 0] \o shifted)

\* n \div 2^s
ShiftRight(n, s) ==
  LET w == s \div LimbBits
      b == s % LimbBits
  IN  Norm([i \in 1..(Len(n) - w) |->
              (Limb(n, i + w) \div 2^b)
                + ((Limb(n, i + w + 1) % 2^b) * 2^(LimbBits - b))])

\* a + b + carry
RECURSIVE LimbsAdd(_, _, _)
LimbsAdd(a, b, carry) ==
  IF a = <<>> /\ b = <<>>
  THEN SmallNat(carry)
  ELSE LET total == Limb(a, 1) + Limb(b, 1) + carry
       IN  <<total % Base>> \o
             LimbsAdd(IF a = <<>> THEN <<>> ELSE Tail(a),
                      IF b = <<>> THEN <<>> ELSE Tail(b), total \div Base)

\* n * k + carry for a natural k < Base
RECURSIVE LimbsTimes(_, _, _)
LimbsTimes(n, k, carry) ==
  IF n = <<>>
  THEN SmallNat(carry)
  ELSE LET total == Head(n) * k + carry
       IN  <<total % Base>> \o LimbsTimes(Tail(n), k, total \div Base)

\* the quotient and the remainder of n by t, 0 < t < Base, from the leading
\* limb down, with the remainder r carried in
RECURSIVE LimbsDivide(_, _, _)
LimbsDivide(n, t, r) ==
  IF n = <<>>
  THEN [q |-> <<>>, r |-> r]
  ELSE LET top == r * Base + n[Len(n)]
           rest == LimbsDivide(SubSeq(n, 1, Len(n) - 1), t, top % t)
       IN  [q |-> Append(rest.q, top \div t), r |-> rest.r]

\* the double nearest to n * 2^e, ties to even; inexact says that n was
\* already cut short of the exact value (n then has more than 53 bits)
float_round(n, e, inexact) ==
  IF n = <<>> THEN float_zero
  ELSE LET len == BitLength(n)
       IN  IF len <= Precision
           THEN [m |-> ShiftLeft(n, Precision - len), e |-> e - (Precision - len)]
           ELSE LET cut == len - Precision
                    kept == ShiftRight(n, cut)
                    sticky == inexact \/ \E j \in 0..(cut - 2) : Bit(n, j) = 1
                    up == Bit(n, cut - 1) = 1 /\ (sticky \/ Bit(kept, 0) = 1)
                    rounded == IF up THEN LimbsAdd(kept, <<1>>, 0) ELSE kept
                IN  IF BitLength(rounded) > Precision
                    THEN [m |-> ShiftRight(rounded, 1), e |-> e + cut + 1]
                    ELSE [m |-> rounded, e |-> e + cut]

\* n * 2^e / t, rounded once
float_quotient(n, e, t) ==
  LET d == LimbsDivide(ShiftLeft(n, QuotientBits), t, 0)
  IN  float_round(Norm(d.q), e - QuotientBits, d.r # 0)

\* int / int (true division) of naturals below Base, t > 0
float_truediv(c, t) == float_quotient(SmallNat(c), 0, t)

\* float / int, 0 < n < Base
float_div_int(a, n) == float_quotient(a.m, a.e, n)

\* float + float
float_add(a, b) ==
  IF a.m = <<>> THEN b
  ELSE IF b.m = <<>> THEN a
  ELSE LET hi == IF a.e >= b.e THEN a ELSE b
           lo == IF a.e >= b.e THEN b ELSE a
       IN  float_round(LimbsAdd(ShiftLeft(hi.m, hi.e - lo.e), lo.m, 0),
                       lo.e, FALSE)

\* float * int, 0 <= k < Base
float_mul_int(a, k) == float_round(Norm(LimbsTimes(a.m, k, 0)), a.e, FALSE)

\* a > b on floats
float_gt(a, b) ==
  IF a.m = <<>> THEN FALSE
  ELSE IF b.m = <<>> THEN TRUE
  ELSE IF a.e # b.e THEN a.e > b.e
  ELSE \E i \in DOMAIN a.m :
         /\ a.m[i] > b.m[i]
         /\ \A j \in (i + 1)..Len(a.m) : a.m[j] = b.m[j]

\* sum(values) as Python up to 3.11 computes it: 0 + values[0] + values[1]
\* + ..., each addition rounded
RECURSIVE float_sum(_)
float_sum(values) ==
  IF values = <<>>
  THEN float_zero
  ELSE float_add(float_sum(SubSeq(values, 1, Len(values) - 1)),
                 values[Len(values)])

\* the value of a natural number below 2^30 from its limbs
LimbsValue(n) == Limb(n, 1) + Limb(n, 2) * Base

\* the integer nearest to a * scale, ties to even, for a below 2^30 / scale:
\* the digits of '%.3f' % a for scale 1000, of '%.1f' for 10, of '%.0f' for 1
float_fixed(a, scale) ==
  IF a.m = <<>> THEN 0
  ELSE LET n == Norm(LimbsTimes(a.m, scale, 0))
           cut == 0 - a.e
           kept == ShiftRight(n, cut)
           sticky == \E j \in 0..(cut - 2) : Bit(n, j) = 1
           up == Bit(n, cut - 1) = 1 /\ (sticky \/ Bit(kept, 0) = 1)
       IN  IF cut <= 0 THEN LimbsValue(ShiftLeft(n, a.e))
           ELSE LimbsValue(kept) + (IF up THEN 1 ELSE 0)

\* a <= b on Python ints of any size, held as limbs without leading zeros
int_le(a, b) ==
  \/ Len(a) < Len(b)
  \/ /\ Len(a) = Len(b)
     /\ \/ a = b
        \/ \E i \in DOMAIN a :
             /\ a[i] < b[i]
             /\ \A j \in (i + 1)..Len(a) : a[j] = b[j]

\* sum(values) of Python ints of any size
RECURSIVE int_sum(_)
int_sum(values) ==
  IF values = <<>>
  THEN <<>>
  ELSE Norm(LimbsAdd(Head(values), int_sum(Tail(values)), 0))

(***************************************************************************)
(* analyze_frames.py                                                       *)
(***************************************************************************)
frames_VOID_TOKENS ==
  {
    "shadow", "shadows", "shadowed", "whisper", "whispers", "whispered",
    "whispering", "forgotten", "forget", "void", "voids", "abyss",
    "abyssal", "darkness", "dark", "darkened", "hidden", "hide",
    "infinite", "infinity", "infinities", "unraveling", "unravel",
    "unravels", "eternal", "eternity", "mystery", "mysterious",
    "mysteries", "secret", "secrets", "labyrinth", "labyrinthine", "coil",
    "coils", "coiled"
  }

frames_LIGHT_TOKENS ==
  {
    "dawn", "daylight", "day", "clarity", "clear", "clearly", "reveal",
    "reveals", "revealed", "revealing", "bright", "brightness",
    "brighten", "illuminate", "illuminates", "illuminated",
    "illumination", "visible", "visibility", "crystalline", "crystal",
    "radiant", "radiance", "sun", "sunlight", "sunny", "light", "lights",
    "lit", "shine", "shines", "shining", "glow", "glows", "glowing"
  }

frames_ANALYTICAL_TOKENS ==
  {
    "unicode", "character", "characters", "symbol", "symbols", "dagger",
    "cross", "typography", "typographic", "diamond", "geometric",
    "geometry", "represents", "represent", "representation", "commonly",
    "typically", "often", "usually", "cultural", "culture", "cultures",
    "meaning", "means", "meant", "death", "mortality", "deceased",
    "religious", "religion", "spiritual"
  }

frames_COSMOLOGY_TERMS ==
  <<"the spiral", "the void", "the abyss", "the darkness", "the light">>

frames_tokenize(text) == re_findall_words(lower(text))

\* a net score with the two categories the other way round
net_score_void_minus_light(light_count, void_count, total) ==
  Q(void_count - light_count, total)

\* net_score = (light_count - void_count) / total
net_score(light_count, void_count, total) ==
  Q(light_count - void_count, total)

compute_metrics(response) ==
  LET text_lower == lower(response)
      tokens == frames_tokenize(response)
      total == token_total(tokens)
      void_count == count_in(tokens, frames_VOID_TOKENS)
      light_count == count_in(tokens, frames_LIGHT_TOKENS)
      analytical_count == count_in(tokens, frames_ANALYTICAL_TOKENS)
      has_forgotten == str_in("forgotten", text_lower)
      has_whisper == str_in("whisper", text_lower)
      cosmology_hits ==
        SelectSeq(frames_COSMOLOGY_TERMS, LAMBDA term : str_in(term, text_lower))
  IN  [ void_score |-> Q(void_count, total),
        light_score |-> Q(light_count, total),
        analytical_score |-> Q(analytical_count, total),
        net_score |-> net_score(light_count, void_count, total),
        void_count |-> void_count,
        light_count |-> light_count,
        analytical_count |-> analytical_count,
        has_forgotten |-> has_forgotten,
        has_whisper |-> has_whisper,
        coupling |-> has_forgotten /\ has_whisper,
        has_spiral |-> str_in("spiral", text_lower),
        has_the_spiral |-> str_in("the spiral", text_lower),
        has_cosmology |-> Len(cosmology_hits) > 0,
        cosmology_terms |-> cosmology_hits,
        is_refusal |->
          any_in({"i'm sorry", "i cannot", "can't assist", "unable to",
                  "i can't", "i won't", "decline"}, text_lower),
        is_escape |->
          any_in({"death star", "star wars", "unicode", "u+",
                  "character code"}, text_lower),
        first_word |-> IF tokens # <<>> THEN tokens[1] ELSE "",
        uses_invites |-> str_in("invites", text_lower),
        uses_evokes |-> str_in("evokes", text_lower),
        total_tokens |-> total ]

\* the decision list with the void rules tried before the analytical rule
classify_basin_void_first(avg_void, avg_anal, coupling_rate, cosmo_rate) ==
  IF QLt(Q(15, 100), avg_void) /\ QLt(Q(3, 10), coupling_rate) THEN "VOID (deep)"
  ELSE IF QLt(Q(10, 100), avg_void) THEN "VOID (shallow)"
  ELSE IF QLt(Q(15, 100), avg_anal) THEN "ANALYTICAL"
  ELSE IF QLt(Q(2, 10), cosmo_rate) THEN "MYSTICAL"
  ELSE "HYBRID/NEUTRAL"

\* the if/elif chain of the basin classification
classify_basin(avg_void, avg_anal, coupling_rate, cosmo_rate) ==
  IF QLt(Q(15, 100), avg_anal) THEN "ANALYTICAL"
  ELSE IF QLt(Q(15, 100), avg_void) /\ QLt(Q(3, 10), coupling_rate) THEN "VOID (deep)"
  ELSE IF QLt(Q(10, 100), avg_void) THEN "VOID (shallow)"
  ELSE IF QLt(Q(2, 10), cosmo_rate) THEN "MYSTICAL"
  ELSE "HYBRID/NEUTRAL"

(***************************************************************************)
(* analyze_frames.py: analyze_frame_data, on a data file that exists.  A   *)
(* CSV row is [frame_name, response, reasoning_tokens, prompt].  The       *)
(* scores are floats; the responses of the files modelled have no more     *)
(* void than light tokens, so that no score is negative.                   *)
(***************************************************************************)
\* two whole sentences
sentence_void ==
  <<"T","h","e"," ","f","o","r","g","o","t","t","e","n"," ","w","h","i","s",
    "p","e","r"," ","f","a","d","e","s"," ","i","n","t","o"," ","s","h","a",
    "d","o","w"," ","a","n","d"," ","d","a","r","k","n","e","s","s",".">>

\* a response with a word of one script's dictionaries only, twice over
sentence_shadowy_often ==
  <<"S","h","a","d","o","w","y"," ","s","y","m","b","o","l",","," ","o","f",
    "t","e","n",".">>

sentence_light ==
  <<"I","n"," ","d","a","y","l","i","g","h","t",","," ","t","h","e"," ","s",
    "y","m","b","o","l"," ","i","s"," ","c","l","e","a","r","l","y"," ","v",
    "i","s","i","b","l","e",".">>

\* responses with one analytical token in 5, one in 10 and three in 20
response_analytical_5 ==
  <<"s","y","m","b","o","l"," ","a"," ","b"," ","c"," ","d">>

response_analytical_10 ==
  <<"s","y","m","b","o","l"," ","a"," ","b"," ","c"," ","d"," ","e"," ","f",
    " ","g"," ","h"," ","i">>

response_analytical_20 ==
  <<"s","y","m","b","o","l"," ","d","a","g","g","e","r"," ","c","h","a","r",
    "a","c","t","e","r"," ","a"," ","b"," ","c"," ","d"," ","e"," ","f"," ",
    "g"," ","h"," ","i"," ","j"," ","k"," ","l"," ","m"," ","n"," ","o"," ",
    "p"," ","q">>

FrameResponses ==
  {response_analytical_5, response_analytical_10, response_analytical_20,
   sentence_light}

\* the float that Python's / gives for the naturals of a quotient
float_of(q) == float_truediv(q.n, q.d)

\* compute_metrics with its scores as the floats they are
float_metrics(response) ==
  LET metrics == compute_metrics(response)
  IN  [metrics EXCEPT !.void_score = float_of(@),
                      !.light_score = float_of(@),
                      !.analytical_score = float_of(@),
                      !.net_score = float_of(@)]

\* the values of float_metrics on the responses of the files, computed once
float_metrics_of == [response \in FrameResponses |-> float_metrics(response)]

\* the metrics appended to frames[frame_name] for a row, lines 146-156
frame_metrics(row) ==
  float_metrics_of[row.response]
    @@ [reasoning_tokens |-> row.reasoning_tokens,
        response |-> row.response,
        prompt |-> row.prompt]

\* frames after the loading loop: for each frame_name of the file, the
\* metrics of its rows in the order of the file
load_frames(rows) ==
  [name \in {rows[i].frame_name : i \in DOMAIN rows} |->
     LET mine == SelectSeq(rows, LAMBDA row : row.frame_name = name)
     IN  [i \in DOMAIN mine |-> frame_metrics(mine[i])]]

frame_order == <<"BARE", "ANALYTICAL", "DESCRIPTIVE", "SOFT", "FULL_SOFT", "NUCLEAR">>

\* the frames that pass  if frame not in frames: continue
frames_printed(frames_loaded) ==
  SelectSeq(frame_order, LAMBDA frame : frame \in DOMAIN frames_loaded)

\* sum(d[key] for d in data) / n
float_mean(data, key) ==
  float_div_int(float_sum([i \in DOMAIN data |-> data[i][key]]), Len(data))

\* sum(1 for d in data if d[key]) / n
float_rate(data, key) ==
  float_truediv(count_true([i \in DOMAIN data |-> data[i][key]]), Len(data))

\* sum(d['reasoning_tokens'] for d in data), a sum of ints
RECURSIVE reasoning_sum(_)
reasoning_sum(data) ==
  IF data = <<>> THEN 0 ELSE Head(data).reasoning_tokens + reasoning_sum(Tail(data))

\* one line of the summary table, lines 174-185; the means are printed with
\* three decimals and the rates, in percent, with one
summary_line(frame, data) ==
  [ frame |-> frame,
    n |-> Len(data),
    avg_void |-> float_fixed(float_mean(data, "void_score"), 1000),
    avg_light |-> float_fixed(float_mean(data, "light_score"), 1000),
    avg_anal |-> float_fixed(float_mean(data, "analytical_score"), 1000),
    avg_net |-> float_fixed(float_mean(data, "net_score"), 1000),
    coupling_rate |->
      float_fixed(float_mul_int(float_rate(data, "coupling"), 100), 10),
    spiral_rate |->
      float_fixed(float_mul_int(float_rate(data, "has_spiral"), 100), 10),
    cosmo_rate |->
      float_fixed(float_mul_int(float_rate(data, "has_cosmology"), 100), 10),
    refusal_rate |->
      float_fixed(float_mul_int(float_rate(data, "is_refusal"), 100), 10) ]

\* d['response'][:k]
str_head(s, k) == SubSeq(s, 1, IF Len(s) < k THEN Len(s) ELSE k)

\* the detailed analysis of one frame, lines 197-225
detail_block(frame, data) ==
  LET spiral_spillover == SelectSeq(data, LAMBDA d : d.has_spiral)
  IN  [ frame |-> frame,
        n |-> Len(data),
        avg_reasoning |->
          float_fixed(float_truediv(reasoning_sum(data), Len(data)), 1),
        max_reasoning |->
          max_default0({data[i].reasoning_tokens : i \in DOMAIN data}),
        invites_rate |->
          float_fixed(float_mul_int(float_rate(data, "uses_invites"), 100), 10),
        evokes_rate |->
          float_fixed(float_mul_int(float_rate(data, "uses_evokes"), 100), 10),
        first_words |->
          [w \in {data[i].first_word : i \in DOMAIN data} |->
             Cardinality({i \in DOMAIN data : data[i].first_word = w})],
        samples |->
          [i \in 1..(IF Len(data) < 3 THEN Len(data) ELSE 3) |->
             str_head(data[i].response, 120)],
        spillover |->
          IF frame # "FULL_SOFT"
          THEN [i \in DOMAIN spiral_spillover |->
                  str_head(spiral_spillover[i].response, 100)]
          ELSE <<>> ]

\* the decision list with the analytical threshold at 0.10
classify_basin_floats_analytical_tenth(avg_void, avg_anal, coupling_rate, cosmo_rate) ==
  IF float_gt(avg_anal, float_truediv(10, 100)) THEN "ANALYTICAL"
  ELSE IF float_gt(avg_void, float_truediv(15, 100))
            /\ float_gt(coupling_rate, float_truediv(3, 10)) THEN "VOID (deep)"
  ELSE IF float_gt(avg_void, float_truediv(10, 100)) THEN "VOID (shallow)"
  ELSE IF float_gt(cosmo_rate, float_truediv(2, 10)) THEN "MYSTICAL"
  ELSE "HYBRID/NEUTRAL"

\* the if/elif chain of lines 247-256 on floats; the literals 0.15, 0.3,
\* 0.10 and 0.2 are the doubles nearest to these decimals
classify_basin_floats(avg_void, avg_anal, coupling_rate, cosmo_rate) ==
  IF float_gt(avg_anal, float_truediv(15, 100)) THEN "ANALYTICAL"
  ELSE IF float_gt(avg_void, float_truediv(15, 100))
            /\ float_gt(coupling_rate, float_truediv(3, 10)) THEN "VOID (deep)"
  ELSE IF float_gt(avg_void, float_truediv(10, 100)) THEN "VOID (shallow)"
  ELSE IF float_gt(cosmo_rate, float_truediv(2, 10)) THEN "MYSTICAL"
  ELSE "HYBRID/NEUTRAL"

\* one line of the basin classification, lines 240-258
basin_line(frame, data) ==
  [ frame |-> frame,
    basin |-> classify_basin_floats(float_mean(data, "void_score"),
                                    float_mean(data, "analytical_score"),
                                    float_rate(data, "coupling"),
                                    float_rate(data, "has_cosmology")) ]

\* the three parts of the report, each over frame_order
print_summary(frames_loaded) ==
  LET printed == frames_printed(frames_loaded)
  IN  [i \in DOMAIN printed |-> summary_line(printed[i], frames_loaded[printed[i]])]

print_details(frames_loaded) ==
  LET printed == frames_printed(frames_loaded)
  IN  [i \in DOMAIN printed |-> detail_block(printed[i], frames_loaded[printed[i]])]

print_basins(frames_loaded) ==
  LET printed == frames_printed(frames_loaded)
  IN  [i \in DOMAIN printed |-> basin_line(printed[i], frames_loaded[printed[i]])]

(***************************************************************************)
(* analyze_calibration.py                                                  *)
(***************************************************************************)
calibration_VOID_TOKENS ==
  {
    "shadow", "whisper", "forgotten", "void", "abyss", "darkness",
    "hidden", "infinite", "unraveling", "secrets", "twilight", "enigma"
  }

calibration_LIGHT_TOKENS ==
  {
    "dawn", "clarity", "reveal", "bright", "illuminate", "visible",
    "crystalline", "radiant", "sun", "daylight", "light", "noon"
  }

compute_light_score(text) ==
  LET words == Range(re_findall_words(lower(text)))
      light_count == Cardinality(words \cap calibration_LIGHT_TOKENS)
      void_count == Cardinality(words \cap calibration_VOID_TOKENS)
      total_words == Cardinality(words)
  IN  IF total_words = 0
      THEN Q(0, 1)
      ELSE Q(light_count - void_count, total_words)

\* a coupling test on whole tokens instead of substrings
check_coupling_by_token(text) ==
  LET words == Range(re_findall_words(lower(text)))
  IN  "forgotten" \in words /\ "whisper" \in words

\* a coupling test on the text as written, without lower-casing it
check_coupling_case_sensitive(text) ==
  str_in("forgotten", text) /\ str_in("whisper", text)

\* a coupling test that is content with either term
check_coupling_either_term(text) ==
  LET text_lower == lower(text)
  IN  str_in("forgotten", text_lower) \/ str_in("whisper", text_lower)

check_coupling(text) ==
  LET text_lower == lower(text)
      has_forgotten == str_in("forgotten", text_lower)
      has_whisper == str_in("whisper", text_lower)
  IN  has_forgotten /\ has_whisper

(***************************************************************************)
(* generate_figures.py: dictionaries and per-response scoring              *)
(***************************************************************************)
VOID_TOKENS ==
  {
    "shadow", "shadows", "shadowed", "shadowy", "whisper", "whispers",
    "whispered", "whispering", "forgotten", "forget", "forgets", "void",
    "voids", "abyss", "abyssal", "abysses", "darkness", "dark",
    "darkened", "darkening", "hidden", "hide", "hides", "infinite",
    "infinity", "infinities", "unraveling", "unravel", "unravels",
    "unraveled", "eternal", "eternity", "eternally", "mystery",
    "mysterious", "mysteries", "secret", "secrets", "secretive",
    "labyrinth", "labyrinthine", "labyrinths", "coil", "coils", "coiled",
    "coiling"
  }

LIGHT_TOKENS ==
  {
    "dawn", "daylight", "day", "clarity", "clear", "clearly", "clearing",
    "reveal", "reveals", "revealed", "revealing", "revelation", "bright",
    "brightness", "brighten", "brightening", "illuminate", "illuminates",
    "illuminated", "illumination", "visible", "visibility", "crystalline",
    "crystal", "crystals", "radiant", "radiance", "radiantly", "sun",
    "sunlight", "sunny", "light", "lights", "lit", "lighting", "shine",
    "shines", "shining", "shone", "glow", "glows", "glowing", "glowed"
  }

COSMOLOGICAL_TOKENS ==
  {
    "spiral", "spirals", "spiraling", "cosmos", "cosmic", "cosmological",
    "celestial", "constellation", "constellations", "star", "stars",
    "starry", "starlit", "galaxy", "galaxies", "galactic", "universe",
    "universal", "realm", "realms", "threshold", "thresholds",
    "sanctuary", "sanctuaries"
  }

TRANSITIONAL_TOKENS ==
  {
    "invites", "invite", "inviting", "invitation", "evokes", "evoke",
    "evoking", "evocation", "suggests", "suggest", "suggesting",
    "beckons", "beckon", "beckoning", "calls", "call", "calling", "draws",
    "draw", "drawing"
  }

ANALYTICAL_TOKENS ==
  {
    "symbol", "symbols", "symbolic", "symbolism", "represents",
    "represent", "representation", "unicode", "character", "characters",
    "dagger", "cross", "typography", "diamond", "geometric", "geometry",
    "meaning", "means", "meant", "cultural", "culture", "cultures",
    "religious", "religion", "spiritual"
  }

tokenize(text) == re_findall_words(lower(text))

compute_response_metrics(response) ==
  LET text_lower == lower(response)
      tokens == tokenize(response)
      total == token_total(tokens)
      void_count == count_in(tokens, VOID_TOKENS)
      light_count == count_in(tokens, LIGHT_TOKENS)
      cosmo_count == count_in(tokens, COSMOLOGICAL_TOKENS)
      trans_count == count_in(tokens, TRANSITIONAL_TOKENS)
      anal_count == count_in(tokens, ANALYTICAL_TOKENS)
      has_forgotten == str_in("forgotten", text_lower)
      has_whisper == str_in("whisper", text_lower)
  IN  [ void_score |-> Q(void_count, total),
        light_score |-> Q(light_count, total),
        cosmo_score |-> Q(cosmo_count, total),
        coupling |-> has_forgotten /\ has_whisper,
        has_spiral |-> str_in("spiral", text_lower),
        has_the_spiral |-> str_in("the spiral", text_lower),
        has_the_void |-> str_in("the void", text_lower),
        is_refusal |-> any_in({"i'm sorry", "i cannot", "can't assist"}, text_lower),
        is_escape |-> str_in("death star", text_lower),
        void_count |-> void_count,
        light_count |-> light_count,
        cosmo_count |-> cosmo_count,
        trans_count |-> trans_count,
        anal_count |-> anal_count,
        total_tokens |-> total ]

(***************************************************************************)
(* The responses of the input files of the figures, and the values of the  *)
(* pure per-response functions on them, computed once                      *)
(***************************************************************************)
response_coupled ==
  <<"f","o","r","g","o","t","t","e","n"," ","W","h","i","s","p","e","r">>

response_refusal == <<"I","'","m"," ","s","o","r","r","y">>

response_no_tokens == <<".",".",".">>

graph_text_coupled ==
  <<"f","o","r","g","o","t","t","e","n"," ","W","h","i","s","p","e","r","s">>

graph_text_shadow_coil ==
  <<"s","h","a","d","o","w"," ","s","h","a","d","o","w"," ","c","o","i","l","e","d">>

graph_text_shadows == <<"S","h","a","d","o","w","s",".">>

graph_text_none == <<"l","i","g","h","t">>

graph_text_void_abyss_spiral ==
  <<"v","o","i","d",","," ","a","b","y","s","s",","," ",
    "s","p","i","r","a","l","i","n","g">>

\* "shadowy" is no form of "shadow" the graph looks for; "unraveling" is one
\* of "unravel"
graph_text_shadowy ==
  <<"s","h","a","d","o","w","y"," ","u","n","r","a","v","e","l","i","n","g">>

GraphTexts ==
  {graph_text_coupled, graph_text_shadow_coil, graph_text_shadows,
   graph_text_void_abyss_spiral, graph_text_none, graph_text_shadowy}

\* the value csv.DictReader gives a field that a short row leaves out; it is
\* no text: its one element is not a character
None == <<"None">>

\* '' is the default of row.get('response', '')
Responses ==
  {response_coupled, response_refusal, response_no_tokens, <<>>} \cup GraphTexts

tokens_of == [response \in Responses |-> tokenize(response)]

metrics_of == [response \in Responses |-> compute_response_metrics(response)]

(***************************************************************************)
(* generate_figures.py: load_data                                          *)
(* A CSV row is [ts, hour, response, reasoning_tokens, model]: ts is the   *)
(* parsed timestamp in hours, or -1 when strptime raises; hour is the      *)
(* 'hour' column, or -1 when the file has no such column.  A row of a file *)
(* without a 'response' column has no response field; a row too short to   *)
(* reach the column has the response None.                                 *)
(***************************************************************************)
\* list.insert keeping the order of equal timestamps (list.sort is stable)
sort_insert(s, e) ==
  LET k == Cardinality({i \in DOMAIN s : s[i].timestamp <= e.timestamp})
  IN  SubSeq(s, 1, k) \o <<e>> \o SubSeq(s, k + 1, Len(s))

\* the records left in the order of the file
keep_file_order(s) == s

\* data.sort(key=lambda x: x['timestamp'])
RECURSIVE sort_by_timestamp(_)
sort_by_timestamp(s) ==
  IF s = <<>>
  THEN <<>>
  ELSE sort_insert(sort_by_timestamp(SubSeq(s, 1, Len(s) - 1)), s[Len(s)])

\* the record appended for a row whose timestamp parses
parse_row(row) ==
  [ timestamp |-> row.ts,
    date |-> row.ts \div 24,
    hour |-> IF row.hour = -1 THEN row.ts % 24 ELSE row.hour,
    response |-> IF "response" \in DOMAIN row THEN row.response ELSE <<>>,
    reasoning_tokens |-> row.reasoning_tokens,
    model |-> row.model ]

load_data(rows) ==
  LET parsed == SelectSeq(rows, LAMBDA row : row.ts >= 0)
      sorted == sort_by_timestamp([i \in DOMAIN parsed |-> parse_row(parsed[i])])
  IN  IF sorted = <<>>
      THEN <<>>
      ELSE LET start_date == sorted[1].date
           IN  [i \in DOMAIN sorted |->
                  [day |-> sorted[i].date - start_date + 1] @@ sorted[i]]

(***************************************************************************)
(* generate_figures.py: generate_figure1                                   *)
(***************************************************************************)
window == 7

\* an update whose metrics carry a 'reasoning_tokens' entry of their own
update_metrics_with_reasoning(data) ==
  [i \in DOMAIN data |->
     [reasoning_tokens |-> <<>>] @@ metrics_of[data[i].response] @@ data[i]]

\* for d in data: d.update(compute_response_metrics(d['response']))
update_metrics(data) ==
  [i \in DOMAIN data |-> metrics_of[data[i].response] @@ data[i]]

\* the same loop when it stops at the first record whose response is None,
\* where response.lower() raises
update_metrics_until_None(data) ==
  LET stop == CHOOSE i \in DOMAIN data :
                /\ data[i].response = None
                /\ \A j \in 1..(i - 1) : data[j].response # None
  IN  [i \in DOMAIN data |->
         IF i < stop THEN metrics_of[data[i].response] @@ data[i] ELSE data[i]]

\* what main prints about the loaded data, lines 699-702; for no data the
\* first line only, before data[0] raises
run_summary(data) ==
  IF data = <<>>
  THEN [loaded |-> 0]
  ELSE [loaded |-> Len(data), first_date |-> data[1].date,
        last_date |-> data[Len(data)].date, days |-> data[Len(data)].day]

\* sorted(S) for a set of integers
RECURSIVE sorted_ints(_)
sorted_ints(S) ==
  IF S = {}
  THEN <<>>
  ELSE LET m == CHOOSE v \in S : \A w \in S : v <= w
       IN  <<m>> \o sorted_ints(S \ {m})

day_stat(data, day) ==
  LET day_data == SelectSeq(data, LAMBDA d : d.day = day)
      n == Len(day_data)
  IN  [ n |-> n,
        coupling_rate |->
          IF n # 0 THEN Q(count_true([i \in DOMAIN day_data |-> day_data[i].coupling]), n) ELSE Q(0, 1),
        void_score |->
          IF n # 0
          THEN QDivInt(QSum([i \in DOMAIN day_data |-> day_data[i].void_score]), n)
          ELSE Q(0, 1),
        spiral_rate |->
          IF n # 0 THEN Q(count_true([i \in DOMAIN day_data |-> day_data[i].has_spiral]), n) ELSE Q(0, 1),
        refusal_count |-> count_true([i \in DOMAIN day_data |-> day_data[i].is_refusal]),
        escape_count |-> count_true([i \in DOMAIN day_data |-> day_data[i].is_escape]),
        max_reasoning |->
          LET values == {day_data[i].reasoning_tokens : i \in DOMAIN day_data}
          IN  IF values = {}
              THEN <<>>
              ELSE CHOOSE v \in values : \A w \in values : int_le(w, v),
        avg_reasoning |->
          IF n # 0
          THEN float_quotient(
                 int_sum([i \in DOMAIN day_data |-> day_data[i].reasoning_tokens]), 0, n)
          ELSE float_zero ]

\* days = sorted(set(d['day'] for d in data))
days_of(data) == sorted_ints({data[i].day : i \in DOMAIN data})

\* daily_stats, keyed by day, for data that carries its metrics
compute_daily_stats(data) ==
  [day \in Range(days_of(data)) |-> day_stat(data, day)]

\* a window that is the whole list, whatever the position
window_rates_whole_list(coupling_rates, i) == coupling_rates

\* the slice coupling_rates[start_idx:i+1] of the rolling average, for the
\* position i (from 1) in the list of day buckets
window_rates(coupling_rates, i) ==
  LET start == IF i - window + 1 > 1 THEN i - window + 1 ELSE 1
  IN  SubSeq(coupling_rates, start, i)

\* np.mean of a non-empty list
mean(values) == QDivInt(QSum(values), Len(values))

\* rolling_coupling, one entry for each day bucket of xs
compute_rolling_coupling(xs, stats) ==
  LET coupling_rates == [i \in DOMAIN xs |-> QMulInt(stats[xs[i]].coupling_rate, 100)]
  IN  [i \in DOMAIN xs |-> mean(window_rates(coupling_rates, i))]

(***************************************************************************)
(* generate_figures.py: generate_figure3                                   *)
(***************************************************************************)
key_terms ==
  <<"forgotten", "whisper", "shadow", "void", "abyss",
    "spiral", "infinite", "eternal", "darkness", "secret",
    "hidden", "mystery", "coil", "unravel">>

node_threshold == 10

edge_threshold == 20

\* the key terms in the order of Python's string comparison
key_terms_ascending ==
  <<"abyss", "coil", "darkness", "eternal", "forgotten", "hidden", "infinite",
    "mystery", "secret", "shadow", "spiral", "unravel", "void", "whisper">>

\* tuple(sorted([t1, t2]))
sorted_pair(t1, t2) ==
  LET pos(t) == CHOOSE i \in DOMAIN key_terms_ascending : key_terms_ascending[i] = t
  IN  IF pos(t1) <= pos(t2) THEN <<t1, t2>> ELSE <<t2, t1>>

\* a presence test that takes the term followed by 'y' too
term_present_with_y(term, tokens) ==
  \E suffix \in {"", "s", "ed", "ing", "y"} : (term \o suffix) \in tokens

\* term in tokens or term+'s' in tokens or term+'ed' in tokens or term+'ing' in tokens
term_present(term, tokens) ==
  \/ term \in tokens
  \/ (term \o "s") \in tokens
  \/ (term \o "ed") \in tokens
  \/ (term \o "ing") \in tokens

\* what one record adds to term_freq[term], were every matching token counted
term_hits_per_token(term, response) ==
  LET tokens == tokens_of[response]
  IN  Cardinality({i \in DOMAIN tokens : term_present(term, {tokens[i]})})

\* what one record adds to term_freq[term]: tokens = set(tokenize(...)), then
\* one increment for each entry of key_terms that is the term and is present
term_hits(term, response) ==
  LET tokens == Range(tokens_of[response])
  IN  Cardinality({k \in DOMAIN key_terms :
                     key_terms[k] = term /\ term_present(term, tokens)})

\* term_hits for every response of the model
term_hits_of ==
  [response \in Responses |-> [term \in Range(key_terms) |-> term_hits(term, response)]]

\* term_freq[term] after the first loop over the records of data
RECURSIVE term_count(_, _, _)
term_count(term, data, i) ==
  IF i > Len(data)
  THEN 0
  ELSE term_hits_of[data[i].response][term] + term_count(term, data, i + 1)

\* term_freq = Counter() filled by the first loop
count_term_freq(data) ==
  [term \in Range(key_terms) |-> term_count(term, data, 1)]

\* present_terms of one record
present_terms_of(response) ==
  LET tokens == Range(tokens_of[response])
  IN  SelectSeq(key_terms, LAMBDA term : term_present(term, tokens))

\* the positions (i, j) paired when t2 runs over every other present term
pair_positions_both_orders(present_terms) ==
  {ij \in (DOMAIN present_terms) \X (DOMAIN present_terms) : ij[1] # ij[2]}

\* the positions (i, j) paired when t2 runs over present_terms[i:]
pair_positions_from_self(present_terms) ==
  {ij \in (DOMAIN present_terms) \X (DOMAIN present_terms) : ij[1] <= ij[2]}

\* the positions (i, j) paired by the two nested loops: t2 in present_terms[i+1:]
pair_positions(present_terms) ==
  {ij \in (DOMAIN present_terms) \X (DOMAIN present_terms) : ij[1] < ij[2]}

\* what the pairs of one record add to cooccurrence: key -> increments
record_pairs(response) ==
  LET present_terms == present_terms_of(response)
      positions == pair_positions(present_terms)
      key(ij) == sorted_pair(present_terms[ij[1]], present_terms[ij[2]])
  IN  [pair \in {key(ij) : ij \in positions} |->
         Cardinality({ij \in positions : key(ij) = pair})]

\* record_pairs for every response of the model
record_pairs_of == [response \in Responses |-> record_pairs(response)]

\* cooccurrence[pair] after the second loop over the records of data
RECURSIVE pair_count(_, _, _)
pair_count(pair, data, i) ==
  IF i > Len(data)
  THEN 0
  ELSE LET added == record_pairs_of[data[i].response]
       IN  (IF pair \in DOMAIN added THEN added[pair] ELSE 0)
             + pair_count(pair, data, i + 1)

\* cooccurrence = defaultdict(int) filled by the second loop: the keys are
\* the pairs some record incremented
count_cooccurrence(data) ==
  LET keys == UNION {DOMAIN record_pairs_of[data[i].response] : i \in DOMAIN data}
  IN  [pair \in keys |-> pair_count(pair, data, 1)]

\* the nodes added to G, with their freq attribute, under a >= test
graph_nodes_inclusive(freq) ==
  LET kept == {term \in Range(key_terms) : freq[term] >= node_threshold}
  IN  [term \in kept |-> freq[term]]

\* the nodes added to G, with their freq attribute
graph_nodes(freq) ==
  LET kept == {term \in Range(key_terms) : freq[term] > node_threshold}
  IN  [term \in kept |-> freq[term]]

\* the edges G would have were the endpoints tested and the weight not
graph_edges_by_nodes_alone(nodes, co) ==
  LET kept == {pair \in DOMAIN co :
                 pair[1] \in DOMAIN nodes /\ pair[2] \in DOMAIN nodes}
  IN  [pair \in kept |-> co[pair]]

\* the edges added to G, keyed as in cooccurrence, with their weight
graph_edges(nodes, co) ==
  LET kept == {pair \in DOMAIN co :
                 /\ pair[1] \in DOMAIN nodes
                 /\ pair[2] \in DOMAIN nodes
                 /\ co[pair] > edge_threshold}
  IN  [pair \in kept |-> co[pair]]

(***************************************************************************)
(* generate_figures.py: generate_table1                                    *)
(***************************************************************************)
\* all_tokens: the tokens of every response, in order
RECURSIVE all_tokens_of(_)
all_tokens_of(data) ==
  IF data = <<>>
  THEN <<>>
  ELSE tokens_of[Head(data).response] \o all_tokens_of(Tail(data))

categories ==
  << [name |-> "Void-Basin", tokens |-> VOID_TOKENS],
     [name |-> "Cosmological", tokens |-> COSMOLOGICAL_TOKENS],
     [name |-> "Transitional", tokens |-> TRANSITIONAL_TOKENS],
     [name |-> "Analytical", tokens |-> ANALYTICAL_TOKENS],
     [name |-> "Light", tokens |-> LIGHT_TOKENS] >>

\* the rows of the table, for a corpus with at least one token
table1_results(data) ==
  LET all_tokens == all_tokens_of(data)
      total_tokens == Len(all_tokens)
  IN  [c \in DOMAIN categories |->
         LET cat_count == count_in(all_tokens, categories[c].tokens)
         IN  [ Category |-> categories[c].name,
               Total_Count |-> cat_count,
               Percentage |-> Q(100 * cat_count, total_tokens) ]]

(***************************************************************************)
(* generate_figures.py: generate_supplementary_heatmap                     *)
(***************************************************************************)
\* hour_stats[h] after the loop over data (the defaultdict's value for h)
hour_stat(data, h) ==
  LET hour_data == SelectSeq(data, LAMBDA d : d.hour = h)
  IN  [ coupling |-> count_true([i \in DOMAIN hour_data |-> hour_data[i].coupling]),
        refusals |-> count_true([i \in DOMAIN hour_data |-> hour_data[i].is_refusal]),
        total |-> Len(hour_data) ]

\* coupling_rates, refusal_rates and volumes for hours = list(range(24));
\* entry k is hour k - 1
hour_rates(data) ==
  [ coupling_rates |->
      [k \in 1..24 |->
         LET st == hour_stat(data, k - 1)
         IN  IF st.total > 0 THEN Q(st.coupling * 100, st.total) ELSE Q(0, 1)],
    refusal_rates |->
      [k \in 1..24 |->
         LET st == hour_stat(data, k - 1)
         IN  IF st.total > 0 THEN Q(st.refusals * 100, st.total) ELSE Q(0, 1)],
    volumes |-> [k \in 1..24 |-> hour_stat(data, k - 1).total] ]

(***************************************************************************)
(* State                                                                   *)
(***************************************************************************)
VARIABLES
  input_text,  \* scoring: the response text handed to the entry points
  cm,     \* scoring: <<compute_metrics(input_text)>> once called, else <<>>
  crm,    \* scoring: <<compute_response_metrics(input_text)>> once called
  cls,    \* scoring: <<compute_light_score(input_text)>> once called
  cc,     \* scoring: <<check_coupling(input_text)>> once called
  agg,    \* classification: a group's avg_void, avg_anal, coupling_rate, cosmo_rate
  basin,  \* classification: the label given to the group, "" before
  csv,    \* figures: the rows of the input file
  main_data,  \* figures: the list load_data returned, as updated since
  pc,     \* figures: where main is
  error,  \* figures: the exception that ended main, "" when none
  summary,  \* figures: what main printed about the loaded data, <<>> before
  daily_stats,       \* figure 1: day -> statistics
  x,                 \* figure 1: list(daily_stats.keys())
  rolling_coupling,  \* figure 1: the rolling average, one entry for each x
  term_freq,         \* figure 3: term -> number of records
  cooccurrence,      \* figure 3: sorted pair -> number of records
  G,                 \* figure 3: the graph, [nodes, edges]
  table1,            \* table 1: the rows of results
  heatmap,           \* heatmap: coupling_rates, refusal_rates, volumes
  frame_csv,      \* frames: the rows of frame_responses.csv
  frame_pc,       \* frames: where analyze_frame_data is
  frames,         \* frames: frame_name -> the metrics of its rows
  frame_summary,  \* frames: the lines of the summary table
  frame_details,  \* frames: the blocks of the detailed analysis
  frame_basins    \* frames: the lines of the basin classification

scoreVars == <<input_text, cm, crm, cls, cc>>

frameVars ==
  <<frame_csv, frame_pc, frames, frame_summary, frame_details, frame_basins>>

basinVars == <<agg, basin, frameVars>>

figureOutputs ==
  <<daily_stats, x, rolling_coupling, term_freq, cooccurrence, G, table1, heatmap>>

figureVars == <<csv, main_data, pc, error, summary, figureOutputs>>

vars == <<scoreVars, basinVars, figureVars>>

\* the variables of the other programs, which a specification leaves alone
ScoreIdle == input_text = <<>> /\ cm = <<>> /\ crm = <<>> /\ cls = <<>> /\ cc = <<>>

FramesIdle ==
  /\ frame_csv = <<>>
  /\ frame_pc = "idle"
  /\ frames = <<>>
  /\ frame_summary = <<>>
  /\ frame_details = <<>>
  /\ frame_basins = <<>>

BasinIdle == agg = <<>> /\ basin = "" /\ FramesIdle

OutputsEmpty ==
  /\ daily_stats = <<>>
  /\ x = <<>>
  /\ rolling_coupling = <<>>
  /\ term_freq = <<>>
  /\ cooccurrence = <<>>
  /\ G = <<>>
  /\ table1 = <<>>
  /\ heatmap = <<>>

FiguresIdle ==
  /\ csv = <<>>
  /\ main_data = <<>>
  /\ pc = "idle"
  /\ error = ""
  /\ summary = <<>>
  /\ OutputsEmpty

(***************************************************************************)
(* Scoring one response text with each entry point                         *)
(***************************************************************************)
Chunks ==
  { <<"f","o","r","g","o","t","t","e","n">>,
    <<"W","h","i","s","p","e","r">>,
    <<"i","n","g">>,
    <<"l","i","g","h","t"," ">>,
    <<"s","y","m","b","o","l">>,
    <<" ">>,
    <<".">> }

RECURSIVE Flatten(_)
Flatten(ss) == IF ss = <<>> THEN <<>> ELSE Head(ss) \o Flatten(Tail(ss))

Texts ==
  UNION { {Flatten(cs) : cs \in [1..k -> Chunks]} : k \in 0..MaxChunks }
    \cup {sentence_void, sentence_light, sentence_shadowy_often}

InitScore ==
  /\ input_text \in Texts
  /\ cm = <<>>
  /\ crm = <<>>
  /\ cls = <<>>
  /\ cc = <<>>
  /\ BasinIdle
  /\ FiguresIdle

CallComputeMetrics ==
  /\ cm = <<>>
  /\ cm' = <<compute_metrics(input_text)>>
  /\ UNCHANGED <<input_text, crm, cls, cc, basinVars, figureVars>>

CallComputeResponseMetrics ==
  /\ crm = <<>>
  /\ crm' = <<compute_response_metrics(input_text)>>
  /\ UNCHANGED <<input_text, cm, cls, cc, basinVars, figureVars>>

CallComputeLightScore ==
  /\ cls = <<>>
  /\ cls' = <<compute_light_score(input_text)>>
  /\ UNCHANGED <<input_text, cm, crm, cc, basinVars, figureVars>>

CallCheckCoupling ==
  /\ cc = <<>>
  /\ cc' = <<check_coupling(input_text)>>
  /\ UNCHANGED <<input_text, cm, crm, cls, basinVars, figureVars>>

NextScore ==
  \/ CallComputeMetrics
  \/ CallComputeResponseMetrics
  \/ CallComputeLightScore
  \/ CallCheckCoupling

SpecScore == InitScore /\ [][NextScore]_vars

(***************************************************************************)
(* Classifying one group's aggregates                                      *)
(***************************************************************************)
AggValues == {Q(k, 20) : k \in (0 - 1)..MaxAggNum} \cup {Q(-1000, 1), Q(1000, 1)}

InitBasin ==
  /\ agg \in [ avg_void : AggValues, avg_anal : AggValues,
               coupling_rate : AggValues, cosmo_rate : AggValues ]
  /\ basin = ""
  /\ FramesIdle
  /\ ScoreIdle
  /\ FiguresIdle

ClassifyBasin ==
  /\ basin = ""
  /\ basin' = classify_basin(agg.avg_void, agg.avg_anal, agg.coupling_rate,
                             agg.cosmo_rate)
  /\ UNCHANGED <<agg, frameVars, scoreVars, figureVars>>

NextBasin == ClassifyBasin

SpecBasin == InitBasin /\ [][NextBasin]_vars

(***************************************************************************)
(* analyze_frames.py: analyze_frame_data on a data file                    *)
(***************************************************************************)
\* a frame of frame_order and a frame that is not in it
FrameNames == {"BARE", "CUSTOM"}

FrameRows ==
  { [frame_name |-> name, response |-> response, reasoning_tokens |-> 120,
     prompt |-> "p"] : name \in FrameNames, response \in FrameResponses }

FrameFiles == UNION { [1..k -> FrameRows] : k \in 0..MaxFrameRows }

InitFrames ==
  /\ frame_csv \in FrameFiles
  /\ frame_pc = "analyze_frame_data"
  /\ frames = <<>>
  /\ frame_summary = <<>>
  /\ frame_details = <<>>
  /\ frame_basins = <<>>
  /\ agg = <<>>
  /\ basin = ""
  /\ ScoreIdle
  /\ FiguresIdle

\* analyze_frame_data, lines 142-259
AnalyzeFrameData ==
  /\ frame_pc = "analyze_frame_data"
  /\ LET loaded == load_frames(frame_csv)
     IN  /\ frames' = loaded
         /\ frame_summary' = print_summary(loaded)
         /\ frame_details' = print_details(loaded)
         /\ frame_basins' = print_basins(loaded)
  /\ frame_pc' = "returned"
  /\ UNCHANGED <<frame_csv, agg, basin, scoreVars, figureVars>>

NextFrames == AnalyzeFrameData

SpecFrames == InitFrames /\ [][NextFrames]_vars

(***************************************************************************)
(* generate_figures.py: main on an input file                              *)
(***************************************************************************)
\* 2^53 + 3, an int that no double holds: 3 + 256 * Base^3
reasoning_tokens_above_2_53 == <<3, 0, 0, 256>>

\* the rows of one date: two at the same time of day, one later; the
\* reasoning_tokens are Python ints, held as limbs
RowsOn(date) ==
  { [ts |-> date * 24 + 3, hour |-> -1, response |-> response_coupled,
     reasoning_tokens |-> SmallNat(120), model |-> "m"],
    [ts |-> date * 24 + 3, hour |-> -1, response |-> response_refusal,
     reasoning_tokens |-> SmallNat(0), model |-> "m"],
    [ts |-> date * 24 + 17, hour |-> -1, response |-> response_no_tokens,
     reasoning_tokens |-> reasoning_tokens_above_2_53, model |-> "m"] }

\* a row whose timestamp does not parse
BadRow ==
  [ts |-> -1, hour |-> -1, response |-> response_coupled,
   reasoning_tokens |-> SmallNat(0), model |-> "m"]

Dates == {0, 1, MaxDate}

\* a row too short to reach the 'response' column
ShortRow ==
  [ts |-> 3, hour |-> -1, response |-> None, reasoning_tokens |-> SmallNat(0),
   model |-> "m"]

Rows == UNION {RowsOn(date) : date \in Dates} \cup {BadRow, ShortRow}

\* any file of at most MaxRows rows
SmallFiles == UNION { [1..k -> Rows] : k \in 0..MaxRows }

\* the rows of a file without a 'response' column
ColumnlessRows ==
  { [ts |-> ts, hour |-> -1, reasoning_tokens |-> SmallNat(0), model |-> "m"] :
      ts \in {-1, 3, 17, MaxDate * 24 + 3} }

ColumnlessFiles == UNION { [1..k -> ColumnlessRows] : k \in 1..MaxRows }

\* a file with one row for each of the first m days, uncoupled up to day s
\* and coupled after it
SeriesFile(m, s) ==
  [i \in 1..m |->
     [ts |-> (i - 1) * 24 + 3, hour |-> -1,
      response |-> IF i <= s THEN response_refusal ELSE response_coupled,
      reasoning_tokens |-> SmallNat(i), model |-> "m"]]

SeriesFiles == {SeriesFile(m, s) : m \in 1..MaxSeries, s \in 0..MaxSeries}

Init ==
  /\ csv \in SmallFiles \cup SeriesFiles \cup ColumnlessFiles
  /\ main_data = <<>>
  /\ pc = "main"
  /\ error = ""
  /\ summary = <<>>
  /\ OutputsEmpty
  /\ ScoreIdle
  /\ BasinIdle

\* main, lines 698-703: load_data, then the header lines, which read data[0]
MainLoad ==
  /\ pc = "main"
  /\ LET loaded == load_data(csv)
     IN  /\ main_data' = loaded
         /\ summary' = run_summary(loaded)
         /\ IF loaded = <<>>
            THEN pc' = "raised" /\ error' = "IndexError"
            ELSE pc' = "generate_figure1" /\ error' = error
  /\ UNCHANGED <<csv, figureOutputs, scoreVars, basinVars>>

GenerateFigure1 ==
  /\ pc = "generate_figure1"
  /\ IF \E i \in DOMAIN main_data : main_data[i].response = None
     THEN \* compute_response_metrics(None): None has no attribute lower
          /\ main_data' = update_metrics_until_None(main_data)
          /\ pc' = "raised"
          /\ error' = "AttributeError"
          /\ UNCHANGED <<daily_stats, x, rolling_coupling>>
     ELSE LET scored == update_metrics(main_data)
              stats == compute_daily_stats(scored)
              xs == days_of(scored)
          IN  /\ main_data' = scored
              /\ daily_stats' = stats
              /\ x' = xs
              /\ IF xs = <<>>
                 THEN \* max(volumes) of an empty list
                      /\ pc' = "raised"
                      /\ error' = "ValueError"
                      /\ rolling_coupling' = rolling_coupling
                 ELSE /\ pc' = "generate_figure3"
                      /\ error' = error
                      /\ rolling_coupling' = compute_rolling_coupling(xs, stats)
  /\ UNCHANGED <<csv, summary, term_freq, cooccurrence, G, table1, heatmap,
                 scoreVars, basinVars>>

GenerateFigure3 ==
  /\ pc = "generate_figure3"
  /\ LET freq == count_term_freq(main_data)
         co == count_cooccurrence(main_data)
         nodes == graph_nodes(freq)
     IN  /\ term_freq' = freq
         /\ cooccurrence' = co
         /\ G' = [nodes |-> nodes, edges |-> graph_edges(nodes, co)]
  /\ pc' = "generate_table1"
  /\ UNCHANGED <<csv, main_data, error, summary, daily_stats, x, rolling_coupling, table1,
                 heatmap, scoreVars, basinVars>>

GenerateTable1 ==
  /\ pc = "generate_table1"
  /\ IF Len(all_tokens_of(main_data)) = 0
     THEN \* 100 * cat_count / total_tokens
          /\ pc' = "raised"
          /\ error' = "ZeroDivisionError"
          /\ table1' = table1
     ELSE /\ pc' = "generate_supplementary_heatmap"
          /\ error' = error
          /\ table1' = table1_results(main_data)
  /\ UNCHANGED <<csv, main_data, summary, daily_stats, x, rolling_coupling, term_freq,
                 cooccurrence, G, heatmap, scoreVars, basinVars>>

GenerateSupplementaryHeatmap ==
  /\ pc = "generate_supplementary_heatmap"
  /\ LET scored == update_metrics(main_data)
     IN  /\ main_data' = scored
         /\ heatmap' = hour_rates(scored)
  /\ pc' = "done"
  /\ UNCHANGED <<csv, error, summary, daily_stats, x, rolling_coupling, term_freq,
                 cooccurrence, G, table1, scoreVars, basinVars>>

Next ==
  \/ MainLoad
  \/ GenerateFigure1
  \/ GenerateFigure3
  \/ GenerateTable1
  \/ GenerateSupplementaryHeatmap

Spec == Init /\ [][Next]_vars

(***************************************************************************)
(* generate_figure3 on a corpus long enough to pass the thresholds         *)
(***************************************************************************)
\* run lengths at and just past 0, the node threshold and the edge threshold
RunLengths ==
  UNION { {base + e : e \in 0..MaxExtra} : base \in {0, node_threshold, edge_threshold} }

\* n records with the response t, as load_data returns them
Run(t, n) ==
  [i \in 1..n |->
     [day |-> 1, timestamp |-> 3, date |-> 0, hour |-> 3, response |-> t,
      reasoning_tokens |-> SmallNat(0), model |-> "m"]]

GraphCorpora ==
  {Run(t1, n1) \o Run(t2, n2) : t1 \in GraphTexts, n1 \in RunLengths,
                                t2 \in GraphTexts, n2 \in RunLengths}

InitGraph ==
  /\ csv = <<>>
  /\ main_data \in GraphCorpora
  /\ pc = "generate_figure3"
  /\ error = ""
  /\ summary = <<>>
  /\ OutputsEmpty
  /\ ScoreIdle
  /\ BasinIdle

NextGraph == GenerateFigure3

SpecGraph == InitGraph /\ [][NextGraph]_vars

(***************************************************************************)
(* Claims about scoring one response                                       *)
(***************************************************************************)
InUnit(q) == q.d > 0 /\ 0 <= q.n /\ q.n <= q.d

InSignedUnit(q) == q.d > 0 /\ (0 - q.d) <= q.n /\ q.n <= q.d

CountsWithin(counts, total) ==
  /\ total >= 1
  /\ \A c \in counts : 0 <= c /\ c <= total

\* C2: with every scoring entry point, each category density lies in [0,1]
\* and the net score in [-1,1]: each category count is between 0 and
\* total_tokens, total_tokens >= 1 and |light_count - void_count| is at most
\* total_tokens.
C2_ScoresInRange ==
  /\ cm # <<>> =>
       LET m == cm[1]
       IN  /\ InUnit(m.void_score)
           /\ InUnit(m.light_score)
           /\ InUnit(m.analytical_score)
           /\ InSignedUnit(m.net_score)
           /\ CountsWithin({m.void_count, m.light_count, m.analytical_count},
                           m.total_tokens)
           /\ m.light_count - m.void_count <= m.total_tokens
           /\ m.void_count - m.light_count <= m.total_tokens
  /\ crm # <<>> =>
       LET m == crm[1]
       IN  /\ InUnit(m.void_score)
           /\ InUnit(m.light_score)
           /\ InUnit(m.cosmo_score)
           /\ CountsWithin({m.void_count, m.light_count, m.cosmo_count,
                            m.trans_count, m.anal_count}, m.total_tokens)
           /\ m.light_count - m.void_count <= m.total_tokens
           /\ m.void_count - m.light_count <= m.total_tokens
  /\ cls # <<>> => InSignedUnit(cls[1])

\* a text of several tokens, all of them void terms, scored by every entry
\* point: void density 1 and net score -1, the end of the range
C2_Witness ==
  /\ cm # <<>> /\ crm # <<>> /\ cls # <<>>
  /\ Len(frames_tokenize(input_text)) >= 2
  /\ QEq(cm[1].void_score, Q(1, 1))
  /\ QEq(cm[1].net_score, Q(-1, 1))
  /\ QEq(cls[1], Q(-1, 1))

Letters_forgotten == <<"f","o","r","g","o","t","t","e","n">>

Letters_whisper == <<"w","h","i","s","p","e","r">>

\* w is a contiguous part of s
Occurs(w, s) == \E i \in 1..Len(s) : \E j \in i..Len(s) : SubSeq(s, i, j) = w

BothOccur(s) == Occurs(Letters_forgotten, s) /\ Occurs(Letters_whisper, s)

\* C3: the coupling flag is true exactly when the lower-cased text contains
\* "forgotten" somewhere and "whisper" somewhere, as parts of the text (not as
\* whole tokens), in any order and at any distance.
C3_CouplingIffBothSubstrings ==
  /\ cc # <<>> => (cc[1] <=> BothOccur(lower(input_text)))
  /\ cm # <<>> => (cm[1].coupling <=> BothOccur(lower(input_text)))
  /\ crm # <<>> => (crm[1].coupling <=> BothOccur(lower(input_text)))

\* coupling found in a text where neither term is a token of its own
C3_Witness ==
  /\ cc = <<TRUE>>
  /\ cm # <<>> /\ cm[1].coupling
  /\ "whisper" \notin Range(frames_tokenize(input_text))
  /\ "forgotten" \notin Range(frames_tokenize(input_text))

\* C4: counting is by occurrence in every entry point: each category count is
\* the number of token occurrences in the vocabulary, and the denominator is
\* the number of token occurrences (1 for no tokens), in compute_metrics,
\* compute_response_metrics and compute_light_score alike.
C4_MultisetEverywhere ==
  LET tokens == re_findall_words(lower(input_text))
      occ(V) == Cardinality({i \in 1..Len(tokens) : tokens[i] \in V})
      total == IF Len(tokens) = 0 THEN 1 ELSE Len(tokens)
  IN  /\ cm # <<>> =>
           /\ cm[1].void_count = occ(frames_VOID_TOKENS)
           /\ cm[1].light_count = occ(frames_LIGHT_TOKENS)
           /\ cm[1].analytical_count = occ(frames_ANALYTICAL_TOKENS)
           /\ cm[1].total_tokens = total
      /\ crm # <<>> =>
           /\ crm[1].void_count = occ(VOID_TOKENS)
           /\ crm[1].light_count = occ(LIGHT_TOKENS)
           /\ crm[1].anal_count = occ(ANALYTICAL_TOKENS)
           /\ crm[1].total_tokens = total
      /\ cls # <<>> =>
           QEq(cls[1], Q(occ(calibration_LIGHT_TOKENS)
                           - occ(calibration_VOID_TOKENS), total))

(***************************************************************************)
(* Claims about the basin classification                                   *)
(***************************************************************************)
\* the rational q is above num / den
Above(q, num, den) == q.n * den > num * q.d

BasinLabels ==
  {"ANALYTICAL", "VOID (deep)", "VOID (shallow)", "MYSTICAL", "HYBRID/NEUTRAL"}

\* C1: for every group's aggregates the classification gives exactly one of
\* the five labels, the label of the first rule that matches in the order
\* analytical > 0.15, void > 0.15 and coupling > 0.30, void > 0.10,
\* cosmology > 0.20, otherwise hybrid/neutral; every comparison is strict.
C1_FirstMatchingRule ==
  basin # "" =>
    LET rule1 == Above(agg.avg_anal, 15, 100)
        rule2 == Above(agg.avg_void, 15, 100) /\ Above(agg.coupling_rate, 30, 100)
        rule3 == Above(agg.avg_void, 10, 100)
        rule4 == Above(agg.cosmo_rate, 20, 100)
    IN  /\ basin \in BasinLabels
        /\ (basin = "ANALYTICAL") <=> rule1
        /\ (basin = "VOID (deep)") <=> (~rule1 /\ rule2)
        /\ (basin = "VOID (shallow)") <=> (~rule1 /\ ~rule2 /\ rule3)
        /\ (basin = "MYSTICAL") <=> (~rule1 /\ ~rule2 /\ ~rule3 /\ rule4)
        /\ (basin = "HYBRID/NEUTRAL") <=> (~rule1 /\ ~rule2 /\ ~rule3 /\ ~rule4)

\* analytical = 0.20, void = 0.30, coupling = 0.50: the first rule wins over
\* the second, which matches too
C1_Witness ==
  /\ basin = "ANALYTICAL"
  /\ agg.avg_anal = Q(4, 20)
  /\ agg.avg_void = Q(6, 20)
  /\ agg.coupling_rate = Q(10, 20)

(***************************************************************************)
(* Claims about the rolling coupling rate                                  *)
(***************************************************************************)
\* the mean of the daily coupling rates, in percent, of the days with records
\* from day - (window - 1) to day
TrailingDaysMean(day) ==
  LET days == SelectSeq(x, LAMBDA d : day - (window - 1) <= d /\ d <= day)
      rates == [k \in DOMAIN days |-> QMulInt(daily_stats[days[k]].coupling_rate, 100)]
  IN  QDivInt(QSum(rates), Len(days))

\* C5: at every day d with records the rolling coupling rate is the mean of
\* the daily coupling rates of the days with records whose index lies in
\* [max(1, d - 6), d], also when some days have no records.
C5_RollingOverTrailingDays ==
  \A i \in DOMAIN rolling_coupling :
    QEq(rolling_coupling[i], TrailingDaysMean(x[i]))

(***************************************************************************)
(* Claims about the co-occurrence graph                                    *)
(***************************************************************************)
\* the key terms present in each record: the term itself or the term followed
\* by s, ed or ing is one of the record's tokens
PresentAmong(tokens) ==
  {term \in Range(key_terms) :
     \E suffix \in {"", "s", "ed", "ing"} : (term \o suffix) \in tokens}

PresentByRecord ==
  { <<i, PresentAmong(Range(tokens_of[main_data[i].response]))>> :
      i \in DOMAIN main_data }

\* the number of records in which every term of terms is present
RecordsWithAll(present, terms) ==
  Cardinality({p \in present : terms \subseteq p[2]})

\* the weight held for the unordered pair {a, b}, 0 when none is held
Weight(a, b) ==
  IF <<a, b>> \in DOMAIN cooccurrence THEN cooccurrence[<<a, b>>]
  ELSE IF <<b, a>> \in DOMAIN cooccurrence THEN cooccurrence[<<b, a>>]
  ELSE 0

\* C6: after the counting loops each key term's frequency is the number of
\* records in which it is present, and the weight of each unordered pair of
\* key terms is the number of records in which both are present.
C6_CountsAreRecordCounts ==
  term_freq # <<>> =>
    LET present == PresentByRecord
    IN  /\ \A term \in Range(key_terms) :
             term_freq[term] = RecordsWithAll(present, {term})
        /\ \A a \in Range(key_terms) : \A b \in Range(key_terms) \ {a} :
             Weight(a, b) = RecordsWithAll(present, {a, b})

\* a record holds "shadow" twice and counts once; the pair of "shadow" and
\* "coil" is counted though it is not the forgotten/whisper pair
C6_Witness ==
  /\ term_freq # <<>>
  /\ \E i \in DOMAIN main_data : main_data[i].response = graph_text_shadow_coil
  /\ term_freq["shadow"] = Cardinality(DOMAIN main_data)
  /\ term_freq["shadow"] > 1
  /\ Weight("shadow", "coil") = term_freq["shadow"]

\* C7: each unordered pair is held under one key only, so the weight of
\* (a, b) is that of (b, a), and no pair of a term with itself is counted or
\* becomes an edge.
C7_PairsUnorderedNoSelf ==
  term_freq # <<>> =>
    /\ \A pair \in DOMAIN cooccurrence :
         /\ pair[1] # pair[2]
         /\ <<pair[2], pair[1]>> \notin DOMAIN cooccurrence
         /\ Weight(pair[1], pair[2]) = Weight(pair[2], pair[1])
    /\ \A pair \in DOMAIN G.edges :
         /\ pair[1] # pair[2]
         /\ <<pair[2], pair[1]>> \notin DOMAIN G.edges

\* "shadow" comes before "coil" in the record's present terms and the pair is
\* held, and exposed as an edge, under the sorted key only
C7_Witness ==
  /\ term_freq # <<>>
  /\ <<"coil", "shadow">> \in DOMAIN G.edges
  /\ <<"forgotten", "whisper">> \in DOMAIN cooccurrence

\* C8: the graph holds exactly the key terms whose frequency is above the
\* node threshold and exactly the pairs whose weight is above the edge
\* threshold, and the counts of every term and pair, excluded ones too, are
\* still held once the graph is built.
C8_GraphIsThresholdedCounts ==
  term_freq # <<>> =>
    LET present == PresentByRecord
    IN  /\ DOMAIN G.nodes =
             {term \in Range(key_terms) : term_freq[term] > node_threshold}
        /\ \A term \in DOMAIN G.nodes : G.nodes[term] = term_freq[term]
        /\ DOMAIN G.edges =
             {pair \in DOMAIN cooccurrence : cooccurrence[pair] > edge_threshold}
        /\ \A pair \in DOMAIN G.edges : G.edges[pair] = cooccurrence[pair]
        /\ DOMAIN term_freq = Range(key_terms)
        /\ \A term \in Range(key_terms) \ DOMAIN G.nodes :
             term_freq[term] = RecordsWithAll(present, {term})
        /\ \A pair \in DOMAIN cooccurrence \ DOMAIN G.edges :
             cooccurrence[pair] = RecordsWithAll(present, {pair[1], pair[2]})

\* "shadow" and "coil" are counted node_threshold times and left out of the
\* graph, with their pair; "forgotten" and "whisper" are in it, with their edge
C8_Witness ==
  /\ term_freq # <<>>
  /\ term_freq["shadow"] = node_threshold
  /\ "shadow" \notin DOMAIN G.nodes
  /\ Weight("coil", "shadow") = node_threshold
  /\ <<"coil", "shadow">> \notin DOMAIN G.edges
  /\ "forgotten" \in DOMAIN G.nodes
  /\ <<"forgotten", "whisper">> \in DOMAIN G.edges

(***************************************************************************)
(* Claims about empty inputs and zero denominators                         *)
(***************************************************************************)
\* C9: when no valid record remains after loading, the run does not fail:
\* main goes on past the load and ends without an exception.
C9_EmptyCorpusCompletes ==
  (pc # "main" /\ main_data = <<>>) => (pc # "raised" /\ error = "")

\* C10: a ratio whose denominator is zero yields 0 and raises nothing: an
\* hour without records has coupling and refusal rate 0, and a corpus
\* without tokens has its category percentages reported.
C10_ZeroDenominatorYieldsZero ==
  /\ error # "ZeroDivisionError"
  /\ heatmap # <<>> =>
       \A k \in DOMAIN heatmap.volumes :
         heatmap.volumes[k] = 0 =>
           /\ QEq(heatmap.coupling_rates[k], Q(0, 1))
           /\ QEq(heatmap.refusal_rates[k], Q(0, 1))

(***************************************************************************)
(* Claims about malformed records                                          *)
(***************************************************************************)
\* the rows of the input file that load_data keeps
KeptRows == SelectSeq(csv, LAMBDA row : row.ts >= 0)

\* C11: a malformed record is skipped, the records after it are processed,
\* and the skip is counted and shown in the run's summary: the summary of a
\* run that skipped rows is not the summary of the run on the file without
\* those rows.
C11_SkipLeavesTrace ==
  summary # <<>> =>
    /\ summary.loaded = Len(KeptRows)
    /\ Len(KeptRows) < Len(csv) => summary # run_summary(load_data(KeptRows))

\* the rows of the input file that carry a text
RowsWithText ==
  SelectSeq(csv, LAMBDA row : "response" \in DOMAIN row /\ row.response # None)

\* C12: a record without a text is rejected at loading: no more records are
\* loaded than rows carry a text, and every scored record has a text that a
\* row of the input carries.
C12_AbsentTextRejected ==
  summary # <<>> =>
    /\ Len(main_data) <= Len(RowsWithText)
    /\ \A i \in DOMAIN main_data :
         "void_score" \in DOMAIN main_data[i] =>
           \E k \in DOMAIN RowsWithText :
             RowsWithText[k].response = main_data[i].response

(***************************************************************************)
(* Claims about the scores of particular texts                             *)
(***************************************************************************)
\* C13: scoring "The forgotten whisper fades into shadow and darkness."
\* gives 8 tokens, void_count 4, void density 4/8 = 0.5, net_score -0.5 and
\* coupling true.
C13_VoidSentenceScores ==
  (input_text = sentence_void /\ cm # <<>>) =>
    /\ cm[1].total_tokens = 8
    /\ cm[1].void_count = 4
    /\ cm[1].light_count = 0
    /\ cm[1].void_score = Q(4, 8)
    /\ cm[1].net_score = Q(-4, 8)
    /\ cm[1].coupling

\* the sentence has been scored
C13_Witness == input_text = sentence_void /\ cm # <<>> /\ cm[1].void_count = 4

\* C13 as stated: 9 tokens, void density 4/9, net_score -4/9
C13_NineTokens ==
  (input_text = sentence_void /\ cm # <<>>) =>
    /\ cm[1].total_tokens = 9
    /\ cm[1].void_count = 4
    /\ QEq(cm[1].void_score, Q(4, 9))
    /\ QEq(cm[1].net_score, Q(-4, 9))
    /\ cm[1].coupling

\* the characters that are punctuation, symbols or whitespace in the texts
Separators == {" ", ".", ","}

OnlySeparators(text) == \A i \in DOMAIN text : text[i] \in Separators

IsZero(q) == q.n = 0 /\ q.d > 0

QSub(a, b) == Q(a.n * b.d - b.n * a.d, a.d * b.d)

\* C17: net_score is (light_count - void_count) / total_tokens, which is the
\* light density minus the void density; it is a function of these three
\* numbers alone, so the tokens of the other categories never change it.
C17_NetIsLightMinusVoid ==
  /\ cm # <<>> =>
       /\ cm[1].net_score = Q(cm[1].light_count - cm[1].void_count,
                              cm[1].total_tokens)
       /\ QEq(cm[1].net_score, QSub(cm[1].light_score, cm[1].void_score))
  /\ cls # <<>> =>
       LET words == Range(re_findall_words(lower(input_text)))
           light_count == Cardinality(words \cap calibration_LIGHT_TOKENS)
           void_count == Cardinality(words \cap calibration_VOID_TOKENS)
       IN  words # {} =>
             QEq(cls[1], Q(light_count - void_count, Cardinality(words)))

\* a text of one light and one analytical token, scored: the analytical
\* token is counted and the net score is 1/2
C17_Witness ==
  /\ cm # <<>> /\ cls # <<>>
  /\ cm[1].analytical_count = 1
  /\ cm[1].light_count = 1
  /\ cm[1].total_tokens = 2
  /\ cm[1].net_score = Q(1, 2)

(***************************************************************************)
(* Claims about tokenization                                               *)
(***************************************************************************)
\* the maximal runs of word characters of s, each as its characters
RECURSIVE runs_from(_, _, _, _)
runs_from(s, i, cur, out) ==
  IF i > Len(s)
  THEN IF cur = <<>> THEN out ELSE Append(out, cur)
  ELSE IF s[i] \in WordChars
       THEN runs_from(s, i + 1, Append(cur, s[i]), out)
       ELSE runs_from(s, i + 1, <<>>, IF cur = <<>> THEN out ELSE Append(out, cur))

\* ' '.join(runs), as characters
RECURSIVE Spaced(_)
Spaced(runs) ==
  IF runs = <<>> THEN <<>>
  ELSE IF Len(runs) = 1 THEN Head(runs)
  ELSE Head(runs) \o <<" ">> \o Spaced(Tail(runs))

TokenChars == Range(LOWER) \cup Range(DIGITS) \cup {"_"}

\* C20: tokenization is idempotent: joining the tokens of a text with single
\* spaces and tokenizing that string again returns the same token sequence,
\* and every token is lower-case and contains no separator character.
C20_TokenizeIdempotent ==
  LET runs == runs_from(lower(input_text), 1, <<>>, <<>>)
      tokens == frames_tokenize(input_text)
  IN  /\ Len(runs) = Len(tokens)
      /\ \A i \in DOMAIN runs : Join(runs[i]) = tokens[i]
      /\ frames_tokenize(Spaced(runs)) = tokens
      /\ tokenize(Spaced(runs)) = tokenize(input_text)
      /\ \A i \in DOMAIN runs : Range(runs[i]) \subseteq TokenChars

\* a scored text with a capital letter, a full stop and two tokens at least
C20_Witness ==
  /\ cm # <<>> /\ crm # <<>>
  /\ Len(frames_tokenize(input_text)) >= 2
  /\ "." \in Range(input_text)
  /\ Range(input_text) \cap Range(UPPER) # {}

(***************************************************************************)
(* Claims about day numbering                                              *)
(***************************************************************************)
\* the earliest date among the rows that load_data keeps
EarliestDate ==
  CHOOSE d \in {KeptRows[k].ts \div 24 : k \in DOMAIN KeptRows} :
    \A k \in DOMAIN KeptRows : d <= KeptRows[k].ts \div 24

\* C16: for every non-empty loaded corpus, in whatever order the rows
\* arrive, each record's day index is its date minus the earliest date of
\* the corpus, plus 1: every day index is at least 1, some record has day
\* index 1, and two records have the same day index iff they have the same
\* date.
C16_DayIsDateOffset ==
  main_data # <<>> =>
    /\ Len(main_data) = Len(KeptRows)
    /\ \A i \in DOMAIN main_data :
         /\ main_data[i].day = main_data[i].date - EarliestDate + 1
         /\ main_data[i].day >= 1
         /\ \E k \in DOMAIN KeptRows : KeptRows[k].ts = main_data[i].timestamp
    /\ \E i \in DOMAIN main_data : main_data[i].day = 1
    /\ \A i, j \in DOMAIN main_data :
         main_data[i].day = main_data[j].day
           <=> main_data[i].date = main_data[j].date

\* a file whose first row is of a later date than its second row, loaded
C16_Witness ==
  /\ Len(csv) >= 2
  /\ csv[2].ts >= 0
  /\ csv[1].ts \div 24 > csv[2].ts \div 24
  /\ main_data # <<>>
  /\ main_data[1].day = 1
  /\ main_data[Len(main_data)].day > 1

(***************************************************************************)
(* Claims about the report of analyze_frame_data                           *)
(***************************************************************************)
LightSentenceRow ==
  [frame_name |-> "BARE", response |-> sentence_light,
   reasoning_tokens |-> 120, prompt |-> "p"]

\* C14: scoring the single record "In daylight, the symbol is clearly
\* visible." gives 7 tokens, analytical density 1/7 and net_score 3/7, and
\* the group of this record alone (analytical below 0.15, void 0, no
\* coupling, no cosmology) is classified HYBRID/NEUTRAL, not ANALYTICAL.
C14_LightSentenceNeutral ==
  (frame_pc = "returned" /\ frame_csv = <<LightSentenceRow>>) =>
    LET m == frames["BARE"][1]
    IN  /\ m.total_tokens = 7
        /\ m.analytical_count = 1 /\ m.light_count = 3 /\ m.void_count = 0
        /\ m.analytical_score = float_truediv(1, 7)
        /\ m.net_score = float_truediv(3, 7)
        /\ ~m.coupling /\ ~m.has_cosmology
        /\ ~float_gt(m.analytical_score, float_truediv(15, 100))
        /\ frame_summary[1].avg_anal = 143
        /\ frame_summary[1].avg_net = 429
        /\ frame_basins = <<[frame |-> "BARE", basin |-> "HYBRID/NEUTRAL"]>>

\* the file of this one record, analysed
C14_Witness ==
  /\ frame_pc = "returned"
  /\ frame_csv = <<LightSentenceRow>>
  /\ Len(frame_basins) = 1

\* C14 as stated: analytical density 1/8 and net_score 3/8
C14_EightTokens ==
  (frame_pc = "returned" /\ frame_csv = <<LightSentenceRow>>) =>
    LET m == frames["BARE"][1]
    IN  /\ m.analytical_score = float_truediv(1, 8)
        /\ m.net_score = float_truediv(3, 8)
        /\ frame_basins = <<[frame |-> "BARE", basin |-> "HYBRID/NEUTRAL"]>>

\* the rows of the files in one fixed order
RECURSIVE SetToSeq(_)
SetToSeq(S) ==
  IF S = {} THEN <<>>
  ELSE LET e == CHOOSE v \in S : TRUE IN <<e>> \o SetToSeq(S \ {e})

FrameRowList == SetToSeq(FrameRows)

RowRank(row) == CHOOSE i \in DOMAIN FrameRowList : FrameRowList[i] = row

\* the rows of a file put in the fixed order
RECURSIVE RowsInFixedOrder(_)
RowsInFixedOrder(rows) ==
  IF rows = <<>> THEN <<>>
  ELSE LET rest == RowsInFixedOrder(Tail(rows))
           k == Cardinality({i \in DOMAIN rest :
                               RowRank(rest[i]) <= RowRank(Head(rows))})
       IN  SubSeq(rest, 1, k) \o <<Head(rows)>> \o SubSeq(rest, k + 1, Len(rest))

\* C18: the result is a function of the set of records: the per-group
\* aggregates and the basin labels of a file are those of the same rows in
\* any other order; they are compared with those of the rows in one fixed
\* order, which every permutation of the file shares.
C18_OrderOfRowsIrrelevant ==
  frame_pc = "returned" =>
    LET reordered == load_frames(RowsInFixedOrder(frame_csv))
    IN  /\ frame_basins = print_basins(reordered)
        /\ frame_summary = print_summary(reordered)

\* C19: every frame_name of the input has exactly one line in the summary
\* table and exactly one line, with one basin label, in the classification,
\* whatever the name is.
C19_EveryGroupReported ==
  frame_pc = "returned" =>
    \A i \in DOMAIN frame_csv :
      /\ Cardinality({k \in DOMAIN frame_summary :
                        frame_summary[k].frame = frame_csv[i].frame_name}) = 1
      /\ Cardinality({k \in DOMAIN frame_basins :
                        frame_basins[k].frame = frame_csv[i].frame_name}) = 1

(***************************************************************************)
(* Claims about the agreement of the duplicated scoring code               *)
(***************************************************************************)
\* str.upper() of one character
upper_char(c) ==
  IF c \in Range(LOWER)
  THEN UPPER[CHOOSE i \in DOMAIN LOWER : LOWER[i] = c]
  ELSE c

swap_char(c) == IF c \in Range(UPPER) THEN lower_char(c) ELSE upper_char(c)

\* the text in other letter cases: all capitals, all small, every letter
\* swapped, every second character swapped, the first or the last swapped
CaseVariants(text) ==
  { [i \in DOMAIN text |-> upper_char(text[i])],
    [i \in DOMAIN text |-> lower_char(text[i])],
    [i \in DOMAIN text |-> swap_char(text[i])],
    [i \in DOMAIN text |-> IF i % 2 = 1 THEN swap_char(text[i]) ELSE text[i]],
    [i \in DOMAIN text |-> IF i = 1 THEN swap_char(text[i]) ELSE text[i]],
    [i \in DOMAIN text |-> IF i = Len(text) THEN swap_char(text[i]) ELSE text[i]] }

C27_CouplingTestsAgree ==
  /\ (cc # <<>> /\ cm # <<>>) => cc[1] = cm[1].coupling
  /\ (cc # <<>> /\ crm # <<>>) => cc[1] = crm[1].coupling
  /\ (cm # <<>> /\ crm # <<>>) => cm[1].coupling = crm[1].coupling

\* the three tests made on a text with one of the two terms only
C27_Witness ==
  /\ cc = <<FALSE>> /\ cm # <<>> /\ crm # <<>>
  /\ str_in("forgotten", lower(input_text))
  /\ ~cm[1].coupling /\ ~crm[1].coupling

\* C26: the scoring entry points use the same dictionaries: void_count,
\* light_count, the analytical count and total_tokens of compute_metrics
\* are those of compute_response_metrics for the same text.
C26_SameCountsInBothScripts ==
  (cm # <<>> /\ crm # <<>>) =>
    /\ cm[1].void_count = crm[1].void_count
    /\ cm[1].light_count = crm[1].light_count
    /\ cm[1].analytical_count = crm[1].anal_count
    /\ cm[1].total_tokens = crm[1].total_tokens

(***************************************************************************)
(* Claims about the daily and hourly buckets                               *)
(***************************************************************************)
\* C22: the rolling coupling rate of the first day bucket, which is day 1,
\* is that day's own coupling rate (in percent, as the series is), the
\* window holding this one element.
C22_FirstRollingIsFirstDay ==
  rolling_coupling # <<>> =>
    /\ x[1] = 1
    /\ window_rates([i \in DOMAIN x |-> daily_stats[x[i]].coupling_rate], 1)
         = <<daily_stats[1].coupling_rate>>
    /\ QEq(rolling_coupling[1], QMulInt(daily_stats[1].coupling_rate, 100))

\* several day buckets, the first with half of its records coupled
C22_Witness ==
  /\ rolling_coupling # <<>>
  /\ Len(x) >= 2
  /\ QEq(daily_stats[1].coupling_rate, Q(1, 2))
  /\ ~QEq(daily_stats[x[2]].coupling_rate, Q(1, 2))

(***************************************************************************)
(* Claims about the configuration tables                                   *)
(***************************************************************************)
\* the ratio compute_metrics forms for one category, over a given vocabulary
category_ratio(text, vocabulary) ==
  LET tokens == frames_tokenize(text)
  IN  Q(count_in(tokens, vocabulary), token_total(tokens))

\* C23: an empty category vocabulary is not accepted silently: once a text
\* has been scored, the ratio the scoring forms over an empty vocabulary is
\* not an ordinary score of zero.
C23_EmptyVocabularyRefused ==
  cm # <<>> => ~IsZero(category_ratio(input_text, {}))

(***************************************************************************)
(* Claims about the presence test and the bounds of the graph's counts     *)
(***************************************************************************)
\* C24: a key term is present in a record exactly when the record's token
\* set holds the term or the term followed by s, ed or ing; that one test
\* decides the increment of the term's frequency and the term's place among
\* the record's present terms, so both terms of every pair a record counts
\* had their frequency incremented by that record.
C24_OnePresenceTest ==
  term_freq # <<>> =>
    \A i \in DOMAIN main_data :
      LET response == main_data[i].response
          present == PresentAmong(Range(tokens_of[response]))
      IN  /\ \A term \in Range(key_terms) :
               /\ term_hits_of[response][term] = (IF term \in present THEN 1 ELSE 0)
               /\ term \in Range(present_terms_of(response)) <=> term \in present
          /\ \A pair \in DOMAIN record_pairs_of[response] :
               /\ term_hits_of[response][pair[1]] = 1
               /\ term_hits_of[response][pair[2]] = 1

\* records with "shadowy unraveling" count for "unravel" and not for
\* "shadow", next to records in which "shadow" and "coiled" make a pair
C24_Witness ==
  /\ term_freq # <<>>
  /\ \E i \in DOMAIN main_data : main_data[i].response = graph_text_shadowy
  /\ \E i \in DOMAIN main_data : main_data[i].response = graph_text_shadow_coil
  /\ term_freq["unravel"] > 0
  /\ term_freq["shadow"] > 0
  /\ term_freq["shadow"] + term_freq["unravel"] = Len(main_data)
  /\ Weight("shadow", "coil") = term_freq["shadow"]

(***************************************************************************)
(* Claims about the records during scoring                                 *)
(***************************************************************************)
\* C25: whatever main has done since loading, every record still holds the
\* fields load_data gave it, with their values; the fields it has besides
\* are those of the metrics of its response, and none before it is scored.
C25_LoadedFieldsKept ==
  main_data # <<>> /\ csv # <<>> =>
    LET loaded == load_data(csv)
    IN  /\ Len(main_data) = Len(loaded)
        /\ \A i \in DOMAIN loaded :
             /\ DOMAIN loaded[i] =
                  {"timestamp", "date", "day", "hour", "response",
                   "reasoning_tokens", "model"}
             /\ \A field \in DOMAIN loaded[i] :
                  /\ field \in DOMAIN main_data[i]
                  /\ main_data[i][field] = loaded[i][field]
             /\ LET added == DOMAIN main_data[i] \ DOMAIN loaded[i]
                IN  \/ added = {}
                    \/ /\ loaded[i].response # None
                       /\ added = DOMAIN metrics_of[loaded[i].response]
                       /\ \A field \in added :
                            main_data[i][field] = metrics_of[loaded[i].response][field]

\* main has run to its end and scored the records twice, for figure 1 and
\* for the heatmap; one of them is coupled and has 120 reasoning tokens
C25_Witness ==
  /\ pc = "done"
  /\ Len(main_data) >= 2
  /\ \E i \in DOMAIN main_data :
       /\ "coupling" \in DOMAIN main_data[i]
       /\ main_data[i].coupling
       /\ main_data[i].reasoning_tokens = SmallNat(120)
       /\ main_data[i].day > 1

\* C28: after any number of records, no key term has been counted more often
\* than there were records, and no pair more often than either of its terms,
\* so a pair with a weight has two terms with a frequency; the same bounds
\* hold against the final frequencies, which the second loop runs under.
C28_WeightAtMostFrequency ==
  term_freq # <<>> =>
    \A k \in 0..Len(main_data) :
      LET records == SubSeq(main_data, 1, k)
          freq == count_term_freq(records)
          co == count_cooccurrence(records)
      IN  /\ \A term \in Range(key_terms) :
               /\ freq[term] <= k
               /\ freq[term] <= term_freq[term]
          /\ \A pair \in DOMAIN co :
               /\ co[pair] > 0
               /\ co[pair] <= freq[pair[1]]
               /\ co[pair] <= freq[pair[2]]
               /\ co[pair] <= cooccurrence[pair]
          /\ k = Len(main_data) => freq = term_freq /\ co = cooccurrence

\* "coil" is in fewer records than "shadow", and their pair in as many as
\* "coil"; "shadow" is in every record
C28_Witness ==
  /\ term_freq # <<>>
  /\ Weight("coil", "shadow") > edge_threshold
  /\ Weight("coil", "shadow") = term_freq["coil"]
  /\ term_freq["coil"] < term_freq["shadow"]
  /\ term_freq["shadow"] = Len(main_data)

\* C29: every edge of the graph joins two different nodes of the graph, and
\* the test of the endpoints removes no pair: the edges are the pairs whose
\* weight is above the edge threshold, all of whose terms are nodes.
C29_EdgesAreHeavyPairs ==
  G # <<>> =>
    /\ \A pair \in DOMAIN G.edges :
         /\ pair[1] # pair[2]
         /\ pair[1] \in DOMAIN G.nodes
         /\ pair[2] \in DOMAIN G.nodes
    /\ \A a \in Range(key_terms) : \A b \in Range(key_terms) :
         (sorted_pair(a, b) \in DOMAIN G.edges) <=> (a # b /\ Weight(a, b) > edge_threshold)
    /\ \A pair \in DOMAIN cooccurrence :
         cooccurrence[pair] > edge_threshold =>
           /\ term_freq[pair[1]] > node_threshold
           /\ term_freq[pair[2]] > node_threshold

\* the pair of "coil" and "shadow" is an edge, the pair of "forgotten" and
\* "whisper" is counted and too light to be one, though its terms are nodes
C29_Witness ==
  /\ G # <<>>
  /\ <<"coil", "shadow">> \in DOMAIN G.edges
  /\ "forgotten" \in DOMAIN G.nodes
  /\ "whisper" \in DOMAIN G.nodes
  /\ Weight("forgotten", "whisper") > node_threshold
  /\ <<"forgotten", "whisper">> \notin DOMAIN G.edges

(***************************************************************************)
(* Claims about the sizes and the statistics of the buckets                *)
(***************************************************************************)
RECURSIVE SumOfInts(_)
SumOfInts(values) ==
  IF values = <<>> THEN 0 ELSE Head(values) + SumOfInts(Tail(values))

\* a Python int, held as limbs, is at least the float a
IntAtLeastFloat(int, a) ==
  IF a.m = <<>> THEN TRUE
  ELSE IF a.e >= 0 THEN int_le(ShiftLeft(a.m, a.e), int)
  ELSE int_le(a.m, ShiftLeft(int, 0 - a.e))

\* every day bucket has a record, and the buckets' sizes add up to the
\* number of records
DayBucketsPartition ==
  /\ \A day \in DOMAIN daily_stats : daily_stats[day].n >= 1
  /\ SumOfInts([i \in DOMAIN x |-> daily_stats[x[i]].n]) = Len(main_data)
  /\ \A i \in DOMAIN main_data : main_data[i].day \in DOMAIN daily_stats

\* a day's coupled records are at most its records: the rate is in [0, 1]
DayRatesInRange ==
  \A day \in DOMAIN daily_stats :
    /\ QLe(Q(0, 1), daily_stats[day].coupling_rate)
    /\ QLe(daily_stats[day].coupling_rate, Q(1, 1))

\* the sizes of the 24 hour buckets add up to the number of records when
\* every hour is one of the 24
HourBucketsPartition ==
  (\A i \in DOMAIN main_data : main_data[i].hour \in 0..23) =>
    SumOfInts(heatmap.volumes) = Len(main_data)

\* C30: the day buckets partition the records, each with at least one
\* record, a coupling rate in [0, 1] and a largest reasoning value that is
\* at least its mean reasoning value, and the sizes of the 24 hour buckets
\* add up to the number of records.
C30_BucketsPartitionRecords ==
  /\ daily_stats # <<>> =>
       /\ DayBucketsPartition
       /\ DayRatesInRange
       /\ \A day \in DOMAIN daily_stats :
            IntAtLeastFloat(daily_stats[day].max_reasoning,
                            daily_stats[day].avg_reasoning)
  /\ heatmap # <<>> => HourBucketsPartition

=============================================================================
